---- MODULE Spec2Model ----
(***************************************************************************)
(* Model of src/main.py: the Book table, the BookRepository with its        *)
(* asyncio.Semaphore(50) gate and its five CRUD coroutines, each split at   *)
(* its await points.  Tasks 1..NumTasks are clients whose calls are         *)
(* followed in full; "bg" stands for any number of further get_books calls  *)
(* whose results nobody looks at (they only occupy the gate).               *)
(***************************************************************************)
EXTENDS Integers, Sequences, FiniteSets, TLC

\* ---------------------------------------------------------------- bounds
NumTasks == 2
MaxId == 2
MaxCalls == 3
MaxBg == 50
MaxBgQueue == 1

\* ------------------------------------------------------- program constants
\* asyncio.Semaphore(50)
Permits == 50

Tasks == 1..NumTasks
BG == 0
Strs == {"a", "b"}
NULL == "NULL"
\* the values update_book is given
Vals == {"b"}
Fields == {"title", "author", "genre"}
\* ids a caller may ask for: MaxId + 1 is never assigned
Ids == 1..(MaxId + 1)
\* Python's None, as a value of get_book_by_id and an argument of delete_book
None == [none |-> TRUE]
NoOp == [name |-> "none"]
\* the engine of Api.repo, the repository every endpoint calls: the first made
RepoHandle == 1

VARIABLES
    sem_value,      \* Semaphore._value
    sem_waiters,    \* Semaphore._waiters: <<[who, woken]>>, oldest first
    bgHolding,      \* background get_books calls inside the gate
    books,          \* the rows of table "books"
    pc,             \* each task's position in its coroutine
    op,             \* each task's current (or last) call and its arguments
    rows,           \* the rows the task's query fetched (local to the call)
    listed,         \* what the task's last get_books returned
    held,           \* the Book (or None) the task last got from get_book_by_id
    outcome,        \* how the last call ended: "none" (not yet), "true",
                    \* "false", "value" (a Book, None or a list) or "raised"
    err,            \* "none" | "storage" | "unmapped": the fault the call met
    calls,          \* calls issued so far (bounded by MaxCalls)
    assigned,       \* ghost: every id ever given to a row
    created,        \* ghost: rows inserted and not updated or deleted since
    txn,            \* each task's open session.begin() scopes
    late,           \* ghost: the task's call was issued after close()
    req,            \* the request a task's call belongs to, when it has a
                    \* second call to make: "none" | "delete"
    hasTable,       \* table "books" exists in books.db
    engines,        \* every engine ever made by create_async_engine, in order:
                    \* "live" | "disposed"
    phase,          \* "imported" | "serving" | "stopped"
    schemaOn        \* the engine lifespan ran create_table on (0: none yet)

vars == <<sem_value, sem_waiters, bgHolding, books, pc, op, rows, listed, held,
          outcome, err, calls, assigned, created, txn, late, req, hasTable,
          engines, phase, schemaOn>>
life == <<req, hasTable, engines, phase, schemaOn>>
semVars == <<sem_value, sem_waiters>>
dbVars == <<books, assigned, created>>

\* ------------------------------------------------------------ Book, table
Book(i, t, a, g) == [id |-> i, title |-> t, author |-> a, genre |-> g]

RECURSIVE SetMax(_)
SetMax(S) == IF S = {} THEN 0
             ELSE LET x == CHOOSE y \in S : TRUE
                      m == SetMax(S \ {x})
                  IN IF x > m THEN x ELSE m

RowIds(tbl) == {r.id : r \in tbl}

\* NextId without its increment
NextIdNoIncrement(tbl) == IF tbl = {} THEN 1 ELSE SetMax(RowIds(tbl))

\* Column(Integer, primary_key=True) on SQLite is the rowid: the largest
\* rowid in the table plus one.
NextId(tbl) == SetMax(RowIds(tbl)) + 1

\* session.add(book) flushed at commit: INSERT INTO books
InsertRow(tbl, t, a, g) == tbl \cup {Book(NextId(tbl), t, a, g)}

\* SelectAll with a page of one row
SelectAllLimit(tbl) == {r \in tbl : r.id = SetMax(RowIds(tbl))}

\* select(Book): no WHERE, no LIMIT
SelectAll(tbl) == tbl

\* SelectById with >= for ==
SelectByIdGe(tbl, i) == {r \in tbl : r.id >= i}

\* select(Book).where(Book.id == id)
SelectById(tbl, i) == {r \in tbl : r.id = i}

\* result.scalars().one_or_none(): the primary key lets at most one row match
OneOrNone(m) == IF m = {} THEN None ELSE CHOOSE r \in m : TRUE

\* SetFields writing NULL to every attribute the mapping leaves out
SetFieldsNulling(r, fields) ==
    [f \in DOMAIN r |-> IF f \in DOMAIN fields THEN fields[f]
                        ELSE IF f = "id" THEN r[f] ELSE NULL]

\* update(Book).where(Book.id == id).values(fields)
SetFields(r, fields) ==
    [f \in DOMAIN r |-> IF f \in DOMAIN fields THEN fields[f] ELSE r[f]]

\* UpdateRows as an upsert: a row is made when none matches
UpdateRowsUpsert(tbl, i, fields) ==
    IF i \in RowIds(tbl)
    THEN {IF r.id = i THEN SetFields(r, fields) ELSE r : r \in tbl}
    ELSE tbl \cup {SetFields(Book(i, NULL, NULL, NULL), fields)}

UpdateRows(tbl, i, fields) ==
    {IF r.id = i THEN SetFields(r, fields) ELSE r : r \in tbl}

\* DeleteRow without its WHERE clause
DeleteRowAll(tbl, b) == {}

\* session.delete(book) flushed at commit: DELETE FROM books WHERE id = book.id
DeleteRow(tbl, b) == {r \in tbl : r.id # b.id}

\* ------------------------------------------------------ asyncio.Semaphore
\* Locked letting a caller through when no permit is left
LockedOffByOne == sem_value < 0 \/ Len(sem_waiters) > 0

\* Semaphore.locked(): no task is ever cancelled, so every waiter counts
Locked == sem_value = 0 \/ Len(sem_waiters) > 0

FirstUnwoken(w) ==
    LET S == {i \in 1..Len(w) : ~w[i].woken}
    IN IF S = {} THEN 0 ELSE CHOOSE i \in S : \A j \in S : i <= j

\* WakeUpNext waking the newest waiter instead of the oldest
WakeUpNextLast(v, w) ==
    LET S == {i \in 1..Len(w) : ~w[i].woken}
        i == IF S = {} THEN 0 ELSE CHOOSE k \in S : \A j \in S : j <= k
    IN IF i = 0 THEN [value |-> v, waiters |-> w, woke |-> FALSE]
       ELSE [value |-> v - 1,
             waiters |-> [w EXCEPT ![i].woken = TRUE],
             woke |-> TRUE]

\* Semaphore._wake_up_next(): the oldest waiter not yet woken gets the permit
WakeUpNext(v, w) ==
    LET i == FirstUnwoken(w)
    IN IF i = 0 THEN [value |-> v, waiters |-> w, woke |-> FALSE]
       ELSE [value |-> v - 1,
             waiters |-> [w EXCEPT ![i].woken = TRUE],
             woke |-> TRUE]

\* the loop at the end of Semaphore.acquire()
RECURSIVE WakeWhile(_, _)
WakeWhile(v, w) ==
    IF v > 0
    THEN LET n == WakeUpNext(v, w)
         IN IF n.woke THEN WakeWhile(n.value, n.waiters) ELSE n
    ELSE [value |-> v, waiters |-> w, woke |-> FALSE]

RemoveAt(w, i) == [j \in 1..(Len(w) - 1) |-> IF j < i THEN w[j] ELSE w[j + 1]]

\* Semaphore.acquire() up to its first suspension
Acquire(who) ==
    IF ~Locked
    THEN /\ sem_value' = sem_value - 1
         /\ sem_waiters' = sem_waiters
    ELSE /\ sem_value' = sem_value
         /\ sem_waiters' = Append(sem_waiters, [who |-> who, woken |-> FALSE])

\* Semaphore.release()
Release ==
    LET n == WakeUpNext(sem_value + 1, sem_waiters)
    IN /\ sem_value' = n.value
       /\ sem_waiters' = n.waiters

\* Semaphore.acquire() after its future was set
Resumable(who) == \E i \in 1..Len(sem_waiters) :
                     sem_waiters[i].who = who /\ sem_waiters[i].woken

Resume(who) ==
    LET i == CHOOSE k \in 1..Len(sem_waiters) :
                 sem_waiters[k].who = who /\ sem_waiters[k].woken
        n == WakeWhile(sem_value, RemoveAt(sem_waiters, i))
    IN /\ sem_value' = n.value
       /\ sem_waiters' = n.waiters

\* ------------------------------------------------------------------ Init
\* what books.db may hold when the process starts: nothing, or a row of an
\* earlier run
Tables == {{}, {Book(1, "a", "b", "a")}}

\* BookRepository.__init__ of Api.repo and tasks that have called nothing yet,
\* seen when `load` further callers are inside the gate
InitCalls(tbl, load) ==
    /\ sem_value = Permits - load
    /\ sem_waiters = <<>>
    /\ bgHolding = load
    /\ books = tbl
    /\ pc = [t \in Tasks |-> "idle"]
    /\ op = [t \in Tasks |-> NoOp]
    /\ rows = [t \in Tasks |-> {}]
    /\ listed = [t \in Tasks |-> {}]
    /\ held = [t \in Tasks |-> None]
    /\ outcome = [t \in Tasks |-> "none"]
    /\ err = [t \in Tasks |-> "none"]
    /\ calls = 0
    /\ assigned = RowIds(tbl)
    /\ created = {}
    /\ txn = [t \in Tasks |-> 0]
    /\ late = [t \in Tasks |-> FALSE]
    /\ req = [t \in Tasks |-> "none"]

\* the process once uvicorn serves requests: Api(app) made its BookRepository
\* when the module was imported (the first engine), lifespan made a second one
\* and ran create_table on it
InitOn(tbl, load) ==
    /\ InitCalls(tbl, load)
    /\ hasTable = TRUE
    /\ engines = <<"live", "live">>
    /\ phase = "serving"
    /\ schemaOn = 2

Init == \E tbl \in Tables : InitOn(tbl, 0)

\* ------------------------------------------------- entering and leaving
\* partial mappings attribute -> value, the **fields of update_book
FieldMaps(V) == UNION {[S -> V] : S \in SUBSET Fields}

InFlight(name) == {t \in Tasks : pc[t] # "idle" /\ op[t].name = name}

\* the first suspension of each coroutine inside its scope
First(name) == CASE name = "create" -> "commit"
                 [] name = "list" -> "query"
                 [] name = "get" -> "query"
                 [] name = "update" -> "execute"
                 [] name = "delete" -> "delete"

\* `async with self.semaphore:` on entry: the call is issued and runs up to
\* its first suspension: queued behind the gate, or inside it with its
\* session.begin() scope open (opening a session sends nothing to the engine)
Issue(t, o) ==
    /\ pc[t] = "idle"
    /\ phase = "serving"
    /\ op' = [op EXCEPT ![t] = o]
    /\ outcome' = [outcome EXCEPT ![t] = "none"]
    /\ err' = [err EXCEPT ![t] = "none"]
    /\ listed' = [listed EXCEPT ![t] = {}]
    /\ Acquire(t)
    /\ pc' = [pc EXCEPT ![t] = IF Locked THEN "waiting" ELSE First(o.name)]
    /\ txn' = [txn EXCEPT ![t] = IF Locked THEN @ ELSE @ + 1]
    /\ late' = [late EXCEPT ![t] = engines[RepoHandle] = "disposed"]
    /\ UNCHANGED <<bgHolding, books, rows, held, assigned, created, hasTable,
                   engines, phase, schemaOn>>

\* a call that is a request of its own (or the first call of one)
Enter(t, o) ==
    /\ req[t] = "none"
    /\ calls < MaxCalls
    /\ calls' = calls + 1
    /\ Issue(t, o)
    /\ UNCHANGED req

\* a queued call whose future was set runs on, inside the gate
Admit(t) ==
    /\ pc[t] = "waiting"
    /\ Resumable(t)
    /\ Resume(t)
    /\ pc' = [pc EXCEPT ![t] = First(op[t].name)]
    /\ txn' = [txn EXCEPT ![t] = @ + 1]
    /\ UNCHANGED <<bgHolding, books, op, rows, listed, held, outcome, err,
                   calls, assigned, created>>
    /\ UNCHANGED <<late, life>>

\* Leave keeping the permit when the call ends by exception
LeaveLeaky(t, out) ==
    /\ pc' = [pc EXCEPT ![t] = "idle"]
    /\ outcome' = [outcome EXCEPT ![t] = out]
    /\ rows' = [rows EXCEPT ![t] = {}]
    /\ txn' = [txn EXCEPT ![t] = IF pc[t] = "except" THEN @ ELSE @ - 1]
    /\ IF out = "raised" THEN UNCHANGED <<sem_value, sem_waiters>> ELSE Release

\* `async with self.session.begin()` and then `async with self.semaphore:` on
\* exit, by return or by exception: the scope is committed or rolled back,
\* the permit is given back (the handler's scope is opened and closed within
\* the step that leaves from "except")
Leave(t, out) ==
    /\ pc' = [pc EXCEPT ![t] = "idle"]
    /\ outcome' = [outcome EXCEPT ![t] = out]
    /\ rows' = [rows EXCEPT ![t] = {}]
    /\ txn' = [txn EXCEPT ![t] = IF pc[t] = "except" THEN @ ELSE @ - 1]
    /\ Release

At(t, name, where) == op[t].name = name /\ pc[t] \in where

Goto(t, to) ==
    /\ pc' = [pc EXCEPT ![t] = to]
    /\ UNCHANGED <<sem_value, sem_waiters, outcome, txn>>

\* Unwind leaving the scope of the try open
UnwindOpen(t) ==
    /\ pc' = [pc EXCEPT ![t] = "except"]
    /\ UNCHANGED <<sem_value, sem_waiters, outcome, txn>>

\* an exception leaves `async with self.session.begin()` inside the try: the
\* scope is rolled back on the way to the handler, the permit is kept
Unwind(t) ==
    /\ pc' = [pc EXCEPT ![t] = "except"]
    /\ txn' = [txn EXCEPT ![t] = @ - 1]
    /\ UNCHANGED <<sem_value, sem_waiters, outcome>>

\* ----------------------------------------------------------- create_book
CallCreate(t, S) ==
    /\ NextId(books) + Cardinality(InFlight("create")) <= MaxId
    /\ \E ti \in S, au \in S, ge \in S :
          Enter(t, [name |-> "create", title |-> ti, author |-> au, genre |-> ge])

\* Book(...), session.add(book); leaving the scope: INSERT and COMMIT;
\* return True
CreateCommit(t) ==
    /\ At(t, "create", {"commit"})
    /\ hasTable
    /\ books' = InsertRow(books, op[t].title, op[t].author, op[t].genre)
    /\ assigned' = assigned \cup {NextId(books)}
    /\ created' = {r \in created : r.id # NextId(books)} \cup (books' \ books)
    /\ Leave(t, "true")
    /\ UNCHANGED <<bgHolding, op, listed, held, err, calls>>
    /\ UNCHANGED <<late, life>>

\* CreateFault without the try: the fault leaves create_book
CreateFaultUncaught(t) ==
    /\ op[t].name = "create" /\ pc[t] \in {"commit"}
    /\ err' = [err EXCEPT ![t] = "storage"]
    /\ Leave(t, "raised")
    /\ UNCHANGED <<bgHolding, books, op, listed, held, calls, assigned, created>>
    /\ UNCHANGED <<late, life>>

\* the storage engine faults inside the try: the scope rolls back, `except:`
CreateFault(t) ==
    /\ At(t, "create", {"commit"})
    /\ err' = [err EXCEPT ![t] = "storage"]
    /\ Unwind(t)
    /\ UNCHANGED <<bgHolding, books, op, rows, listed, held, calls, assigned,
                   created>>
    /\ UNCHANGED <<late, life>>

\* the handler: session.begin() on a fresh session, session.rollback() of its
\* empty scope (nothing is sent to the engine); return False
CreateRollback(t) ==
    /\ At(t, "create", {"except"})
    /\ Leave(t, "false")
    /\ UNCHANGED <<bgHolding, books, op, listed, held, err, calls, assigned,
                   created>>
    /\ UNCHANGED <<late, life>>

\* ------------------------------------------------------------- get_books
CallList(t) == Enter(t, [name |-> "list"])

\* session.stream(select(Book)); result.scalars().all()
ListQuery(t) ==
    /\ At(t, "list", {"query"})
    /\ hasTable
    /\ rows' = [rows EXCEPT ![t] = SelectAll(books)]
    /\ Goto(t, "commit")
    /\ UNCHANGED <<bgHolding, books, op, listed, held, err, calls, assigned,
                   created>>
    /\ UNCHANGED <<late, life>>

\* leaving the scope; return books
ListReturn(t) ==
    /\ At(t, "list", {"commit"})
    /\ listed' = [listed EXCEPT ![t] = rows[t]]
    /\ Leave(t, "value")
    /\ UNCHANGED <<bgHolding, books, op, held, err, calls, assigned, created>>
    /\ UNCHANGED <<late, life>>

\* no try: a storage fault leaves get_books as an exception
ListFault(t) ==
    /\ At(t, "list", {"query", "commit"})
    /\ err' = [err EXCEPT ![t] = "storage"]
    /\ Leave(t, "raised")
    /\ UNCHANGED <<bgHolding, books, op, listed, held, calls, assigned, created>>
    /\ UNCHANGED <<late, life>>

\* -------------------------------------------------------- get_book_by_id
CallGet(t, I) == \E i \in I : Enter(t, [name |-> "get", id |-> i])

\* session.stream(select(Book).where(Book.id == id))
GetQuery(t) ==
    /\ At(t, "get", {"query"})
    /\ hasTable
    /\ rows' = [rows EXCEPT ![t] = SelectById(books, op[t].id)]
    /\ Goto(t, "commit")
    /\ UNCHANGED <<bgHolding, books, op, listed, held, err, calls, assigned,
                   created>>
    /\ UNCHANGED <<late, life>>

\* GetReturn with one() for one_or_none(): no row is an exception
GetReturnOne(t) ==
    /\ op[t].name = "get" /\ pc[t] \in {"commit"}
    /\ IF rows[t] = {}
       THEN /\ err' = [err EXCEPT ![t] = "notfound"]
            /\ Leave(t, "raised")
            /\ UNCHANGED held
       ELSE /\ held' = [held EXCEPT ![t] = OneOrNone(rows[t])]
            /\ Leave(t, "value")
            /\ UNCHANGED err
    /\ UNCHANGED <<bgHolding, books, op, listed, calls, assigned, created>>
    /\ UNCHANGED <<late, life>>

\* one_or_none(); leaving the scope; return book
GetReturn(t) ==
    /\ At(t, "get", {"commit"})
    /\ held' = [held EXCEPT ![t] = OneOrNone(rows[t])]
    /\ Leave(t, "value")
    /\ UNCHANGED <<bgHolding, books, op, listed, err, calls, assigned, created>>
    /\ UNCHANGED <<late, life>>

\* no try: a storage fault leaves get_book_by_id as an exception
GetFault(t) ==
    /\ At(t, "get", {"query", "commit"})
    /\ err' = [err EXCEPT ![t] = "storage"]
    /\ Leave(t, "raised")
    /\ req' = [req EXCEPT ![t] = "none"]
    /\ UNCHANGED <<bgHolding, books, op, listed, held, calls, assigned, created>>
    /\ UNCHANGED <<late, hasTable, engines, phase, schemaOn>>

\* ----------------------------------------------------------- update_book
CallUpdate(t, I, M) ==
    \E i \in I, f \in M :
        Enter(t, [name |-> "update", id |-> i, fields |-> f])

\* UpdateExecute on a connection in autocommit: the statement's effect is
\* visible before the scope is left
UpdateExecuteAutocommit(t) ==
    /\ op[t].name = "update" /\ pc[t] \in {"execute"}
    /\ hasTable
    /\ books' = UpdateRows(books, op[t].id, op[t].fields)
    /\ Goto(t, "commit")
    /\ UNCHANGED <<bgHolding, op, rows, listed, held, err, calls, assigned,
                   created>>
    /\ UNCHANGED <<late, life>>

\* session.execute(update(Book).where(Book.id == id).values(fields)), inside
\* the scope's transaction: other sessions do not see it before COMMIT
UpdateExecute(t) ==
    /\ At(t, "update", {"execute"})
    /\ hasTable
    /\ Goto(t, "commit")
    /\ UNCHANGED <<bgHolding, books, op, rows, listed, held, err, calls,
                   assigned, created>>
    /\ UNCHANGED <<late, life>>

\* leaving the scope: COMMIT makes the statement's effect visible; return True
UpdateCommit(t) ==
    /\ At(t, "update", {"commit"})
    /\ books' = UpdateRows(books, op[t].id, op[t].fields)
    /\ created' = {r \in created : r.id # op[t].id}
    /\ Leave(t, "true")
    /\ UNCHANGED <<bgHolding, op, listed, held, err, calls, assigned>>
    /\ UNCHANGED <<late, life>>

UpdateFault(t) ==
    /\ At(t, "update", {"execute", "commit"})
    /\ err' = [err EXCEPT ![t] = "storage"]
    /\ Unwind(t)
    /\ UNCHANGED <<bgHolding, books, op, rows, listed, held, calls, assigned,
                   created>>
    /\ UNCHANGED <<late, life>>

UpdateRollback(t) ==
    /\ At(t, "update", {"except"})
    /\ Leave(t, "false")
    /\ UNCHANGED <<bgHolding, books, op, listed, held, err, calls, assigned,
                   created>>
    /\ UNCHANGED <<late, life>>

\* ----------------------------------------------------------- delete_book
\* the argument is what the caller got from get_book_by_id: a Book or None
CallDelete(t) == Enter(t, [name |-> "delete", book |-> held[t]])

\* session.delete(book) marks a mapped instance for deletion
DeleteMark(t) ==
    /\ At(t, "delete", {"delete"})
    /\ op[t].book # None
    /\ Goto(t, "commit")
    /\ UNCHANGED <<bgHolding, books, op, rows, listed, held, err, calls,
                   assigned, created>>
    /\ UNCHANGED <<late, life>>

\* DeleteUnmapped taking None for nothing to do
DeleteUnmappedNoop(t) ==
    /\ op[t].name = "delete" /\ pc[t] \in {"delete"}
    /\ op[t].book = None
    /\ Leave(t, "true")
    /\ UNCHANGED <<bgHolding, books, op, listed, held, err, calls, assigned,
                   created>>
    /\ UNCHANGED <<late, life>>

\* session.delete(None) raises (not a mapped instance); nothing catches it
DeleteUnmapped(t) ==
    /\ At(t, "delete", {"delete"})
    /\ op[t].book = None
    /\ err' = [err EXCEPT ![t] = "unmapped"]
    /\ Leave(t, "raised")
    /\ UNCHANGED <<bgHolding, books, op, listed, held, calls, assigned, created>>
    /\ UNCHANGED <<late, life>>

\* DeleteCommit with a DELETE that matches on every column of the instance
DeleteCommitIfSame(t) ==
    /\ op[t].name = "delete" /\ pc[t] \in {"commit"}
    /\ hasTable
    /\ books' = IF op[t].book \in books THEN DeleteRow(books, op[t].book)
                 ELSE books
    /\ created' = {r \in created : r.id # op[t].book.id}
    /\ Leave(t, "true")
    /\ UNCHANGED <<bgHolding, op, listed, held, err, calls, assigned>>
    /\ UNCHANGED <<late, life>>

\* leaving the scope: DELETE by primary key and COMMIT; return True (a DELETE
\* that matches no row any more is only warned about)
DeleteCommit(t) ==
    /\ At(t, "delete", {"commit"})
    /\ hasTable
    /\ books' = DeleteRow(books, op[t].book)
    /\ created' = {r \in created : r.id # op[t].book.id}
    /\ Leave(t, "true")
    /\ UNCHANGED <<bgHolding, op, listed, held, err, calls, assigned>>
    /\ UNCHANGED <<late, life>>

\* no try: a storage fault leaves delete_book as an exception
DeleteFault(t) ==
    /\ At(t, "delete", {"delete", "commit"})
    /\ err' = [err EXCEPT ![t] = "storage"]
    /\ Leave(t, "raised")
    /\ UNCHANGED <<bgHolding, books, op, listed, held, calls, assigned, created>>
    /\ UNCHANGED <<late, life>>

\* ------------------------------------------------------ the endpoints
\* Required letting a missing parameter through
RequiredLax(v) == TRUE

\* a query parameter declared without a default (title: str) is required: a
\* request that lacks it is answered 422 and the endpoint does not run
Required(v) == v # NULL

\* POST /book
FacadeCreate(t, S) ==
    /\ NextId(books) + Cardinality(InFlight("create")) <= MaxId
    /\ \E ti \in S \cup {NULL}, au \in S \cup {NULL}, ge \in S \cup {NULL} :
          /\ Required(ti) /\ Required(au) /\ Required(ge)
          /\ Enter(t, [name |-> "create", title |-> ti, author |-> au,
                       genre |-> ge])

\* FacadeFields leaving out the parameters the request does not carry
FacadeFieldsSetOnly(ti, au, ge) ==
    LET all == [title |-> ti, author |-> au, genre |-> ge]
    IN [f \in {g \in Fields : all[g] # NULL} |-> all[f]]

\* the dict the PUT endpoint builds from its parameters; one the request
\* does not carry has its default, None
FacadeFields(ti, au, ge) == [title |-> ti, author |-> au, genre |-> ge]

\* PUT /book/{id}
FacadeUpdate(t, I, V) ==
    \E i \in I, ti \in V \cup {NULL}, au \in V \cup {NULL}, ge \in V \cup {NULL} :
        Enter(t, [name |-> "update", id |-> i, fields |-> FacadeFields(ti, au, ge)])

\* DELETE /book/{id}: book = await self.repo.get_book_by_id(id)
FacadeDelete(t, I) ==
    /\ req[t] = "none"
    /\ calls < MaxCalls
    /\ calls' = calls + 1
    /\ \E i \in I : Issue(t, [name |-> "get", id |-> i])
    /\ req' = [req EXCEPT ![t] = "delete"]

\* DELETE /book/{id}: await self.repo.delete_book(book), with whatever the
\* lookup returned
FacadeDeleteSecond(t) ==
    /\ req[t] = "delete"
    /\ outcome[t] = "value"
    /\ Issue(t, [name |-> "delete", book |-> held[t]])
    /\ req' = [req EXCEPT ![t] = "none"]
    /\ UNCHANGED calls

\* the requests the application answers
Facade(t, S, I, V) ==
    \/ FacadeCreate(t, S)
    \/ CallList(t)
    \/ CallGet(t, I)
    \/ FacadeUpdate(t, I, V)
    \/ FacadeDelete(t, I)
    \/ FacadeDeleteSecond(t)

\* ------------------------------------------------- create_table, close
\* EnsureSchema dropping the table it finds
EnsureSchemaRecreate(has, tbl) == {}

\* Base.metadata.create_all: CREATE TABLE only for a table that is missing
EnsureSchema(has, tbl) == IF has THEN tbl ELSE {}

\* create_table called on Api.repo: engine.begin(), create_all, commit; it
\* does not pass the gate
CreateTable(t) ==
    /\ pc[t] = "idle" /\ req[t] = "none" /\ phase = "serving"
    /\ calls < MaxCalls
    /\ calls' = calls + 1
    /\ op' = [op EXCEPT ![t] = [name |-> "create_table"]]
    /\ books' = EnsureSchema(hasTable, books)
    /\ hasTable' = TRUE
    /\ outcome' = [outcome EXCEPT ![t] = "value"]
    /\ err' = [err EXCEPT ![t] = "none"]
    /\ late' = [late EXCEPT ![t] = engines[RepoHandle] = "disposed"]
    /\ UNCHANGED <<sem_value, sem_waiters, bgHolding, pc, rows, listed, held,
                   assigned, created, txn, req, engines, phase, schemaOn>>

\* no try: a storage fault leaves create_table as an exception
CreateTableFault(t) ==
    /\ pc[t] = "idle" /\ req[t] = "none" /\ phase = "serving"
    /\ calls < MaxCalls
    /\ calls' = calls + 1
    /\ op' = [op EXCEPT ![t] = [name |-> "create_table"]]
    /\ outcome' = [outcome EXCEPT ![t] = "raised"]
    /\ err' = [err EXCEPT ![t] = "storage"]
    /\ late' = [late EXCEPT ![t] = engines[RepoHandle] = "disposed"]
    /\ UNCHANGED <<sem_value, sem_waiters, bgHolding, books, pc, rows, listed,
                   held, assigned, created, txn, req, hasTable, engines, phase,
                   schemaOn>>

\* close() called on Api.repo: engine.dispose() closes the pooled connections
\* and leaves the engine with a new, empty pool: the next call on the engine
\* connects again
RepoClose ==
    /\ phase = "serving"
    /\ engines[RepoHandle] = "live"
    /\ engines' = [engines EXCEPT ![RepoHandle] = "disposed"]
    /\ UNCHANGED <<sem_value, sem_waiters, bgHolding, books, pc, op, rows,
                   listed, held, outcome, err, calls, assigned, created, txn,
                   late, req, hasTable, phase, schemaOn>>

\* --------------------------------------------------------------- lifespan

\* lifespan before yield: BookRepository().create_table() on a repository
\* made for this one call
LifespanStartup ==
    /\ phase = "imported"
    /\ engines' = Append(engines, "live")
    /\ schemaOn' = Len(engines) + 1
    /\ books' = EnsureSchema(hasTable, books)
    /\ hasTable' = TRUE
    /\ phase' = "serving"
    /\ UNCHANGED <<sem_value, sem_waiters, bgHolding, pc, op, rows, listed,
                   held, outcome, err, calls, assigned, created, txn, late, req>>

\* create_table meets a storage fault: lifespan raises, the application does
\* not start
LifespanStartupFault ==
    /\ phase = "imported"
    /\ engines' = Append(engines, "live")
    /\ phase' = "stopped"
    /\ UNCHANGED <<sem_value, sem_waiters, bgHolding, books, pc, op, rows,
                   listed, held, outcome, err, calls, assigned, created, txn,
                   late, req, hasTable, schemaOn>>

\* lifespan after yield, once the server has drained its requests:
\* BookRepository().close() on another repository made for this one call
LifespanShutdown ==
    /\ phase = "serving"
    /\ \A t \in Tasks : pc[t] = "idle" /\ req[t] = "none"
    /\ engines' = Append(engines, "disposed")
    /\ phase' = "stopped"
    /\ UNCHANGED <<sem_value, sem_waiters, bgHolding, books, pc, op, rows,
                   listed, held, outcome, err, calls, assigned, created, txn,
                   late, req, hasTable, schemaOn>>

\* ------------------------------------------- further callers of get_books
BgWaiting == Cardinality({i \in 1..Len(sem_waiters) : sem_waiters[i].who = BG})

BgArrive ==
    /\ bgHolding + BgWaiting < MaxBg
    /\ Locked => BgWaiting < MaxBgQueue
    /\ Acquire(BG)
    /\ bgHolding' = IF Locked THEN bgHolding ELSE bgHolding + 1
    /\ UNCHANGED <<books, pc, op, rows, listed, held, outcome, err, calls,
                   assigned, created>>
    /\ UNCHANGED <<txn, late, life>>

BgAdmit ==
    /\ Resumable(BG)
    /\ Resume(BG)
    /\ bgHolding' = bgHolding + 1
    /\ UNCHANGED <<books, pc, op, rows, listed, held, outcome, err, calls,
                   assigned, created>>
    /\ UNCHANGED <<txn, late, life>>

\* the call returns its list or raises: either way the gate is left
BgLeave ==
    /\ bgHolding > 0
    /\ Release
    /\ bgHolding' = bgHolding - 1
    /\ UNCHANGED <<books, pc, op, rows, listed, held, outcome, err, calls,
                   assigned, created>>
    /\ UNCHANGED <<txn, late, life>>

\* ------------------------------------------------------- specifications
\* the steps of a call inside the gate
StepIn(t) ==
    \/ CreateCommit(t) \/ CreateFault(t) \/ CreateRollback(t)
    \/ ListQuery(t) \/ ListReturn(t) \/ ListFault(t)
    \/ GetQuery(t) \/ GetReturn(t) \/ GetFault(t)
    \/ UpdateExecute(t) \/ UpdateCommit(t) \/ UpdateFault(t)
    \/ UpdateRollback(t)
    \/ DeleteMark(t) \/ DeleteUnmapped(t) \/ DeleteCommit(t)
    \/ DeleteFault(t)

Step(t) == Admit(t) \/ StepIn(t)

Call(t, S, I, M) ==
    \/ CallCreate(t, S)
    \/ CallList(t)
    \/ CallGet(t, I)
    \/ CallUpdate(t, I, M)
    \/ CallDelete(t)

\* NumTasks callers alone never fill the gate, so none of them is ever queued
Next == \E t \in Tasks : Call(t, Strs, Ids, FieldMaps(Vals)) \/ StepIn(t)

Spec == Init /\ [][Next]_vars

\* the gate under load: the same calls on few inputs, among up to MaxBg further
\* callers of get_books
GateMaps == {[title |-> "b"]}

InitGate == InitOn({}, 0)

NextGate ==
    \/ \E t \in Tasks : Call(t, {"a"}, {1}, GateMaps) \/ Step(t)
    \/ BgArrive
    \/ BgAdmit
    \/ BgLeave

SpecGate == InitGate /\ [][NextGate]_vars

\* the full gate under a scheduler that runs every runnable coroutine: the
\* tasks create and list while 50 further callers are inside the gate and leave
StepFair(t) ==
    \/ Admit(t)
    \/ CreateCommit(t) \/ CreateFault(t) \/ CreateRollback(t)
    \/ ListQuery(t) \/ ListReturn(t) \/ ListFault(t)

NextFair ==
    \/ \E t \in Tasks : CallCreate(t, {"a"}) \/ CallList(t) \/ StepFair(t)
    \/ BgLeave

Fairness ==
    /\ \A t \in Tasks : WF_vars(StepFair(t))
    /\ WF_vars(BgLeave)

InitFull == InitOn({}, Permits)

SpecFair == InitFull /\ [][NextFair]_vars /\ Fairness

\* the requests of the application, on every id and every choice of fields to
\* update
NextFacade == \E t \in Tasks : Facade(t, {"a"}, Ids, Vals) \/ StepIn(t)

SpecFacade == Init /\ [][NextFacade]_vars

\* a BookRepository whose caller uses all of its methods, create_table and
\* close included, on a database that may not have the table yet
InitRepo ==
    \E has \in BOOLEAN, tbl \in Tables :
        /\ has \/ tbl = {}
        /\ InitCalls(tbl, 0)
        /\ hasTable = has
        /\ engines = <<"live">>
        /\ phase = "serving"
        /\ schemaOn = 0

NextRepo ==
    \/ RepoClose
    \/ \E t \in Tasks :
          \/ CreateTable(t)
          \/ CreateTableFault(t)
          \/ Call(t, {"a"}, {1}, GateMaps)
          \/ StepIn(t)

SpecRepo == InitRepo /\ [][NextRepo]_vars

\* DELETE and PUT requests racing on one stored id, beside another Book
RaceId == 1
Bystander == Book(2, "a", "a", "a")
RaceTable == {Book(RaceId, "a", "b", "a"), Bystander}

InitRace == InitOn(RaceTable, 0)

StepRace(t) ==
    \/ GetQuery(t) \/ GetReturn(t) \/ GetFault(t)
    \/ UpdateExecute(t) \/ UpdateCommit(t) \/ UpdateFault(t)
    \/ UpdateRollback(t)
    \/ DeleteMark(t) \/ DeleteUnmapped(t) \/ DeleteCommit(t)
    \/ DeleteFault(t)

NextRace ==
    \E t \in Tasks :
        \/ FacadeDelete(t, {RaceId})
        \/ FacadeDeleteSecond(t)
        \/ FacadeUpdate(t, {RaceId}, Vals)
        \/ StepRace(t)

SpecRace == InitRace /\ [][NextRace]_vars

\* the life of the process: import, lifespan's startup, requests, shutdown
InitLife ==
    \E has \in BOOLEAN, tbl \in Tables :
        /\ has \/ tbl = {}
        /\ InitCalls(tbl, 0)
        /\ hasTable = has
        /\ engines = <<"live">>
        /\ phase = "imported"
        /\ schemaOn = 0

NextLife ==
    \/ LifespanStartup
    \/ LifespanStartupFault
    \/ LifespanShutdown
    \/ \E t \in Tasks : Facade(t, {"a"}, {1}, Vals) \/ StepIn(t)

SpecLife == InitLife /\ [][NextLife]_vars

\* ------------------------------------------------------------------ gate
InCS(t) == pc[t] \notin {"idle", "waiting"}
Inside == Cardinality({t \in Tasks : InCS(t)}) + bgHolding
Woken == Cardinality({i \in 1..Len(sem_waiters) : sem_waiters[i].woken})
Quiet == /\ \A t \in Tasks : pc[t] = "idle"
         /\ bgHolding = 0
         /\ sem_waiters = <<>>

\* C1: at no time are more than 50 calls between the gate's acquire and its
\* release, however many are issued and however they interleave.
C1_GateBound == Inside <= Permits

\* the gate is full, a followed task is inside and more callers are queued
C1_Saturated ==
    /\ Inside = Permits
    /\ \E t \in Tasks : InCS(t)
    /\ \E t \in Tasks : pc[t] = "waiting"
    /\ Len(sem_waiters) > 1

\* C2: each call takes one permit and gives it back on every way out: the
\* free permits and the permits held (by calls inside the gate and by woken
\* waiters) always add up to 50, and all 50 are free when no call is in flight.
C2_PermitsConserved ==
    /\ sem_value >= 0
    /\ sem_value + Inside + Woken = Permits
    /\ Quiet => sem_value = Permits

\* calls have ended by exception and by `return False`, and the gate is whole
C2_AllExitsTaken ==
    /\ Quiet
    /\ \E t \in Tasks : outcome[t] = "raised"
    /\ \E t \in Tasks : outcome[t] = "false"

Queued(w, t) == \E i \in 1..Len(w) : w[i].who = t
Pos(w, t) == CHOOSE i \in 1..Len(w) : w[i].who = t

WokenPrefix ==
    \A i, j \in 1..Len(sem_waiters) :
        (i < j /\ sem_waiters[j].woken) => sem_waiters[i].woken

FifoStep ==
    /\ \A t \in Tasks :
          (pc[t] # "waiting" /\ pc'[t] = "waiting") =>
              sem_waiters' = Append(sem_waiters, [who |-> t, woken |-> FALSE])
    /\ \A t, u \in Tasks :
          (/\ Queued(sem_waiters, t) /\ Queued(sem_waiters, u)
           /\ Queued(sem_waiters', t) /\ Queued(sem_waiters', u)
           /\ Pos(sem_waiters, t) < Pos(sem_waiters, u))
          => Pos(sem_waiters', t) < Pos(sem_waiters', u)
    /\ \A t \in Tasks :
          (pc[t] = "waiting" /\ pc'[t] # "waiting") =>
              /\ sem_waiters[Pos(sem_waiters, t)].woken
              /\ pc'[t] = First(op[t].name)
              /\ outcome'[t] = "none" /\ err'[t] = "none"

\* C10: a call that finds the gate full waits without failing; permits go to
\* the waiters oldest first (the woken waiters are always the head of the
\* queue, arrivals join its tail); and, every admitted call finishing, every
\* waiting call is admitted.
C10_Backpressure ==
    /\ []WokenPrefix
    /\ [][FifoStep]_vars
    /\ \A t \in Tasks : (pc[t] = "waiting") ~> InCS(t)

\* both followed tasks are queued at the full gate, the older one woken
C10_TwoQueued ==
    /\ \A t \in Tasks : pc[t] = "waiting"
    /\ \E i \in 1..Len(sem_waiters) : sem_waiters[i].woken
    /\ \E i \in 1..Len(sem_waiters) : ~sem_waiters[i].woken


\* ------------------------------------------------------------ operations
Ended(t, name) == op[t].name = name /\ pc[t] = "idle"
Commits(t, name) == op[t].name = name /\ pc[t] = "commit" /\ pc'[t] = "idle"
Matches(b, o) == b.title = o.title /\ b.author = o.author /\ b.genre = o.genre

\* C3: a storage fault met by create_book or update_book never leaves the
\* call: the call goes through its handler and ends by returning False.
C3_FaultBecomesFalse ==
    \A t \in Tasks :
        op[t].name \in {"create", "update"} =>
            /\ outcome[t] # "raised"
            /\ err[t] = "storage" =>
                  \/ pc[t] = "except" /\ outcome[t] = "none"
                  \/ pc[t] = "idle" /\ outcome[t] = "false"
            /\ outcome[t] = "false" => err[t] = "storage"

\* a create and an update have both met a fault and returned False
C3_BothReturnedFalse ==
    /\ \E t \in Tasks : Ended(t, "create") /\ outcome[t] = "false"
    /\ \E t \in Tasks : Ended(t, "update") /\ outcome[t] = "false"

\* C4 as stated: the Book a successful create adds carries the given fields,
\* is what a list then shows, and has an id no stored Book has and no Book
\* ever had.
C4_PreviouslyUnseenId ==
    [][\A t \in Tasks :
          (Commits(t, "create") /\ outcome'[t] = "true") =>
              \E b \in SelectAll(books') :
                  /\ Matches(b, op[t])
                  /\ books' = books \cup {b}
                  /\ b.id \notin RowIds(books)
                  /\ b.id \notin assigned]_vars

\* C4 amended: the Book a successful create adds carries the given fields, is
\* what a list then shows, and has an id no other stored Book has; the id may
\* be that of a Book deleted earlier.
C4_CreateThenList ==
    [][\A t \in Tasks :
          (Commits(t, "create") /\ outcome'[t] = "true") =>
              \E b \in SelectAll(books') :
                  /\ Matches(b, op[t])
                  /\ books' = books \cup {b}
                  /\ b.id \notin RowIds(books)
                  /\ \A r \in books' : r.id = b.id => r = b]_vars

\* a create has returned True beside another stored Book, its Book is listed
C4_Created ==
    \E t \in Tasks :
        /\ Ended(t, "create") /\ outcome[t] = "true"
        /\ \E b \in SelectAll(books) : Matches(b, op[t]) /\ b.id \in assigned
        /\ Cardinality(books) > 1

\* C5: get_book_by_id on the id of a Book created and not updated or deleted
\* since fetches exactly that Book, and returns what it fetched.
C5_GetCreated ==
    [][\A t \in Tasks :
          op[t].name = "get" =>
              /\ (pc[t] = "query" /\ pc'[t] = "commit") =>
                    \A b \in created : b.id = op[t].id => rows'[t] = {b}
              /\ (pc[t] = "commit" /\ outcome'[t] = "value") =>
                    \A b \in rows[t] : held'[t] = b]_vars

\* a get has returned a Book that is as it was created
C5_GotCreated ==
    \E t \in Tasks :
        /\ Ended(t, "get") /\ outcome[t] = "value"
        /\ held[t] \in created
        /\ held[t].id = op[t].id

\* C6 as stated: get_book_by_id on an id no Book was ever given returns None
\* and raises nothing.
C6_NeverRaises ==
    \A t \in Tasks :
        (Ended(t, "get") /\ op[t].id \notin assigned) =>
            (outcome[t] = "value" /\ held[t] = None)

\* C6 amended: get_book_by_id on an id no Book was ever given returns None
\* whenever it returns; no row matching is never a fault, and the only fault the
\* call can end by is a fault of the storage engine, which nothing catches.
C6_AbsentIsNone ==
    \A t \in Tasks :
        (Ended(t, "get") /\ op[t].id \notin assigned) =>
            \/ outcome[t] = "value" /\ held[t] = None /\ err[t] = "none"
            \/ outcome[t] = "raised" /\ err[t] = "storage"

\* a get on a never assigned id has returned None while Books are stored
C6_GotNone ==
    \E t \in Tasks :
        /\ Ended(t, "get") /\ op[t].id \notin assigned
        /\ outcome[t] = "value" /\ held[t] = None
        /\ books # {}

\* C7: when update_book on a stored id returns True, a get on that id shows
\* every given value in its attribute, every other attribute as it was, and
\* the same id.
C7_UpdateThenGet ==
    [][\A t \in Tasks :
          (Commits(t, "update") /\ outcome'[t] = "true") =>
              \A r \in books :
                  r.id = op[t].id =>
                      LET g == OneOrNone(SelectById(books', r.id))
                      IN /\ g # None
                         /\ g.id = r.id
                         /\ \A f \in Fields :
                               g[f] = IF f \in DOMAIN op[t].fields
                                      THEN op[t].fields[f] ELSE r[f]]_vars

\* an update of some but not all attributes has returned True, and the Book
\* shows the given values beside a value it had before
C7_PartlyUpdated ==
    \E t \in Tasks :
        /\ Ended(t, "update") /\ outcome[t] = "true"
        /\ DOMAIN op[t].fields \notin {{}, Fields}
        /\ \E r \in books :
              /\ r.id = op[t].id
              /\ \A f \in DOMAIN op[t].fields : r[f] = op[t].fields[f]
              /\ \E f \in Fields \ DOMAIN op[t].fields : r[f] = "a"

\* C8: update_book on an id no stored Book has, met by no storage fault,
\* returns True and leaves the table as it was.
C8_UpdateOfMissing ==
    /\ [][\A t \in Tasks :
            Commits(t, "update") =>
                /\ outcome'[t] = "true"
                /\ op[t].id \notin RowIds(books) => books' = books]_vars
    /\ [](\A t \in Tasks :
            (Ended(t, "update") /\ err[t] = "none") => outcome[t] = "true")

\* an update of an id never stored has returned True beside a stored Book
C8_MissingUpdated ==
    \E t \in Tasks :
        /\ Ended(t, "update") /\ outcome[t] = "true"
        /\ op[t].id \notin assigned
        /\ DOMAIN op[t].fields # {}
        /\ books # {}

\* C9: delete_book of a Book got from get_book_by_id, when it returns, returns
\* True; a get on the Book's id then finds nothing, and every other stored Book
\* is as it was.
C9_DeleteRemoves ==
    /\ [][\A t \in Tasks :
            (Commits(t, "delete") /\ outcome'[t] # "raised") =>
                /\ outcome'[t] = "true"
                /\ OneOrNone(SelectById(books', op[t].book.id)) = None
                /\ books' = {r \in books : r.id # op[t].book.id}]_vars
    /\ [](\A t \in Tasks :
            (Ended(t, "delete") /\ op[t].book # None) =>
                \/ outcome[t] = "true"
                \/ outcome[t] = "raised" /\ err[t] = "storage")

\* a delete of a fetched Book has returned True; the Book is gone, another stays
C9_Deleted ==
    \E t \in Tasks :
        /\ Ended(t, "delete") /\ outcome[t] = "true"
        /\ op[t].book # None
        /\ op[t].book.id \notin RowIds(books)
        /\ books # {}

\* ---------------------------------------------------------- transactions
\* C11: no transaction outlives a repository call: a task that is not inside
\* a call (idle, or still queued at the gate) has no open scope, the scope of
\* the try is closed when the handler runs, a call inside the gate has exactly
\* one; so when no call is in flight there is no open transaction at all.
C11_NoTransactionOutlivesCall ==
    /\ \A t \in Tasks :
          /\ txn[t] \in {0, 1}
          /\ pc[t] \in {"idle", "waiting", "except"} => txn[t] = 0
          /\ pc[t] \in {"commit", "query", "execute", "delete"} => txn[t] = 1
    /\ (\A t \in Tasks : pc[t] = "idle") => \A t \in Tasks : txn[t] = 0

\* calls have ended in each way a scope is left: commit, rollback in the
\* handler, exception; and none is in flight
C11_EveryScopeClosed ==
    /\ \A t \in Tasks : pc[t] = "idle" /\ txn[t] = 0
    /\ \E t \in Tasks : op[t].name = "update" /\ outcome[t] = "false"
    /\ \E t \in Tasks : op[t].name \in {"get", "delete"} /\ outcome[t] = "raised"
    /\ calls = MaxCalls /\ books # {}

\* -------------------------------------------------------------- engines
\* C12: exactly one engine is made over the life of the process; the engine
\* lifespan ensured the schema on is the one that serves the requests; and
\* once the process has shut down every engine ever made is disposed.
C12_OneEngine ==
    /\ Len(engines) = 1
    /\ schemaOn # 0 => schemaOn = RepoHandle
    /\ phase = "stopped" => \A i \in 1..Len(engines) : engines[i] = "disposed"

\* C13: once close() has disposed the engine of a repository, a call issued
\* on that repository fails fast: it never ends with a normal result.
C13_FailsFastAfterClose ==
    \A t \in Tasks : late[t] => outcome[t] \in {"none", "raised", "false"}

\* C15: create_table is idempotent: whenever it returns the table exists and
\* every Book stored before the call is stored unchanged, so the state after
\* a further call is the state after this one.
C15_EnsureSchemaIdempotent ==
    [][\A t \in Tasks :
          (calls' # calls /\ op'[t].name = "create_table"
              /\ pc'[t] = "idle" /\ outcome'[t] = "value")
          => /\ hasTable'
             /\ hasTable => (books' = books /\ assigned' = assigned)
             /\ ~hasTable => books' = {}
             /\ EnsureSchema(hasTable', books') = books']_vars

\* C15 as stated: create_table raises no error, in any reachable state
C15_NeverRaises ==
    \A t \in Tasks : op[t].name = "create_table" => outcome[t] # "raised"

\* create_table has returned twice while a Book is stored
C15_CalledTwiceOnRows ==
    /\ books # {}
    /\ \A t \in Tasks : /\ op[t].name = "create_table" /\ outcome[t] = "value"

\* ------------------------------------------------------------ identity
\* C14: stored Books have pairwise distinct ids; the set of stored ids changes
\* only when a create or a delete commits, so no operation (an update with
\* any fields least of all) changes the id of a stored Book; and the Book a
\* create commits carries a title, an author and a genre that are not null.
C14_IdsDistinctAndFixed ==
    /\ [](\A r \in books : \A q \in books : r.id = q.id => r = q)
    /\ [][/\ (\A t \in Tasks : ~Commits(t, "create") /\ ~Commits(t, "delete"))
               => RowIds(books') = RowIds(books)
          /\ \A t \in Tasks : Commits(t, "update") =>
                 /\ Cardinality(books') = Cardinality(books)
                 /\ \A r \in books : r.id # op[t].id => r \in books'
          /\ \A t \in Tasks : Commits(t, "create") =>
                 /\ Cardinality(books' \ books) = 1
                 /\ \A b \in books' \ books :
                        /\ b.id \notin RowIds(books)
                        /\ NULL \notin {b.title, b.author, b.genre}]_vars

\* two Books are stored, one made by a create of this run, the other updated
\* to nulls
C14_CreatedBesideUpdated ==
    /\ Cardinality(books) = 2
    /\ \E t \in Tasks : Ended(t, "create") /\ outcome[t] = "true"
    /\ \E t \in Tasks : /\ Ended(t, "update") /\ outcome[t] = "true"
                         /\ \E r \in books : r.id = op[t].id /\ r.title = NULL

\* ------------------------------------------------------------ atomicity
\* C16: a create or an update that returns False leaves the store as it was:
\* no step of a create or an update changes the table except the one in
\* which the call returns True, so a failed call has no partial effect that a
\* later or concurrent read could see.
C16_FalseLeavesStore ==
    /\ [][\A t \in Tasks :
             (pc'[t] # pc[t] /\ op'[t].name \in {"create", "update"}
                 /\ outcome'[t] # "true")
             => UNCHANGED <<books, assigned>>]_vars
    /\ [](\A t \in Tasks : outcome[t] = "false" =>
             op[t].name \in {"create", "update"} /\ err[t] = "storage")

\* an update of a stored Book and a create have both returned False, and the
\* Book still differs from what the update would have written
C16_BothFailed ==
    /\ \E t \in Tasks : /\ Ended(t, "update") /\ outcome[t] = "false"
                         /\ \E r \in books :
                               /\ r.id = op[t].id
                               /\ \E f \in DOMAIN op[t].fields :
                                     r[f] # op[t].fields[f]
    /\ \E t \in Tasks : Ended(t, "create") /\ outcome[t] = "false"

\* -------------------------------------------------------- the PUT endpoint
\* C17: the PUT endpoint always passes all three attributes to update_book,
\* the ones the request leaves out as null; so when its update commits, the
\* matching Book has every attribute as passed: an update that carries one
\* field sets the other two to null.
C17_FacadeUpdateWritesAllThree ==
    /\ [](\A t \in Tasks : op[t].name = "update" => DOMAIN op[t].fields = Fields)
    /\ [][\A t \in Tasks : Commits(t, "update") =>
             \A r \in books : r.id = op[t].id =>
                 \E q \in books' :
                     /\ q.id = r.id
                     /\ \A f \in Fields : /\ f \in DOMAIN op[t].fields
                                           /\ q[f] = op[t].fields[f]]_vars

\* a PUT that carried only the title has nulled the author and the genre of a
\* stored Book
C17_OthersNulled ==
    \E t \in Tasks :
        /\ Ended(t, "update") /\ outcome[t] = "true"
        /\ op[t].fields = [title |-> "b", author |-> NULL, genre |-> NULL]
        /\ Book(op[t].id, "b", NULL, NULL) \in books

\* ----------------------------------------------------- the DELETE endpoint
\* C18: the DELETE endpoint on an id no Book has: its lookup finds no row and
\* returns None, the endpoint passes that None to delete_book, and delete_book
\* ends by an exception, never by True or False; no step of that call changes
\* the table, and its permit is back once it has ended.
C18_DeleteOfAbsentFaults ==
    /\ [][\A t \in Tasks :
             /\ (req[t] = "delete" /\ op[t].name = "get" /\ pc[t] = "query"
                     /\ pc'[t] = "commit" /\ op[t].id \notin RowIds(books))
                => rows'[t] = {}
             /\ (req[t] = "delete" /\ Commits(t, "get") /\ rows[t] = {}
                     /\ outcome'[t] = "value")
                => held'[t] = None
             /\ (req[t] = "delete" /\ op'[t].name = "delete")
                => op'[t].book = held[t]
             /\ (pc'[t] # pc[t] /\ op'[t].name = "delete"
                     /\ op'[t].book = None)
                => /\ UNCHANGED <<books, assigned>>
                   /\ outcome'[t] \in {"none", "raised"}]_vars
    /\ [](\A t \in Tasks : (Ended(t, "delete") /\ op[t].book = None) =>
             /\ outcome[t] = "raised"
             /\ err[t] \in {"unmapped", "storage"})
    /\ [](sem_value + Inside + Woken = Permits)

\* a DELETE on an id no Book has ended by the exception of session.delete,
\* the stored Book is still there and every permit is back
C18_AbsentDeleteRaised ==
    /\ \E t \in Tasks : /\ Ended(t, "delete") /\ op[t].book = None
                         /\ outcome[t] = "raised" /\ err[t] = "unmapped"
                         /\ req[t] = "none"
    /\ \A t \in Tasks : pc[t] = "idle"
    /\ sem_value = Permits
    /\ books \in Tables \ {{}}

\* ----------------------------------------------------------------- reads
\* C19: get_books and get_book_by_id are read-only: no step of either changes
\* the table; and get_books returns exactly the Books that were committed
\* when its query ran, all of them.
C19_ReadsAreReadOnly ==
    [][\A t \in Tasks :
          /\ (pc'[t] # pc[t] /\ op'[t].name \in {"list", "get"})
             => UNCHANGED <<books, assigned, created, hasTable>>
          /\ (op[t].name = "list" /\ pc[t] = "query" /\ pc'[t] = "commit")
             => rows'[t] = books
          /\ (Commits(t, "list") /\ outcome'[t] = "value")
             => listed'[t] = rows[t]]_vars

\* a get_books has returned both stored Books, after a get_book_by_id
C19_ListedBoth ==
    /\ Cardinality(books) = 2
    /\ \E t \in Tasks : /\ Ended(t, "list") /\ outcome[t] = "value"
                         /\ listed[t] = books
    /\ \E t \in Tasks : Ended(t, "get") /\ outcome[t] = "value"

\* ---------------------------------------------------------------- races
\* a task is between the two calls of its DELETE request
Between(t) == req[t] = "delete" /\ pc[t] = "idle"

\* C20: the DELETE endpoint makes two calls with no permit and no transaction
\* held between them; yet when DELETE requests on a stored id race with each
\* other and with PUT requests on that id, every DELETE that ends without
\* having met a storage fault leaves the id absent, an absent id is never
\* brought back, and the other stored Book is never touched: once all the
\* requests have ended the id is absent and the other Book is as it was.
C20_RaceLeavesIdAbsent ==
    /\ [](\A t \in Tasks : Between(t) => txn[t] = 0 /\ ~InCS(t))
    /\ [](sem_value + Inside + Woken = Permits)
    /\ [][\A t \in Tasks :
             (op[t].name = "delete" /\ pc[t] # "idle" /\ pc'[t] = "idle"
                 /\ err'[t] # "storage")
             => RaceId \notin RowIds(books')]_vars
    /\ [][RaceId \notin RowIds(books) => RaceId \notin RowIds(books')]_vars
    /\ [](Bystander \in books /\ RowIds(books) \subseteq {RaceId, Bystander.id})
    /\ []((/\ \A t \in Tasks : (pc[t] = "idle" /\ req[t] = "none")
           /\ \E u \in Tasks : (Ended(u, "delete") /\ err[u] # "storage"))
           => books = {Bystander})

\* two DELETE requests whose lookups saw the Book before and after a PUT
\* changed it have both returned True, and a PUT has returned True
C20_BothDeletedAcrossUpdate ==
    /\ \A t \in Tasks : /\ Ended(t, "delete") /\ outcome[t] = "true"
                         /\ req[t] = "none"
    /\ \E t \in Tasks : \E u \in Tasks : op[t].book # op[u].book
    /\ books = {Bystander}

====
